---------------------------- MODULE Spec2Model ----------------------------
(***************************************************************************)
(* Model of the two Lambda handlers of the weather notification system:    *)
(*   handler  (lambda/daily-summary/fetchWeatherData.ts)                   *)
(*   main     (lambda/automation/automationHandler.ts)                     *)
(* Every invocation is a separate run of the async function.  An action is *)
(* the synchronous stretch of code between two await points; the answers   *)
(* of the collaborators (Secrets Manager, the HTTP endpoint, SNS) and the  *)
(* random draw are the inputs, drawn from small sets.                      *)
(***************************************************************************)
EXTENDS Integers, Sequences, FiniteSets, TLC

VARIABLES env, fetch, auto

vars == <<env, fetch, auto>>

(***************************************************************************)
(* Bounds of the model.                                                    *)
(***************************************************************************)
NumFetch == 2      \* invocations of handler that may overlap
NumAuto == 2       \* invocations of main that may overlap
MaxList == 5       \* longest forecast list a response carries
NumBoth == 1       \* invocations of handler running beside one of main
RandDen == 20      \* Math.random() is drawn from {0/RandDen, ..., (RandDen-1)/RandDen}

FetchIds == 1..NumFetch
AutoIds == 1..NumAuto

(***************************************************************************)
(* Strings.  A key, a message or a topic is a TLA+ string.  The city is a  *)
(* sequence of characters, because encodeURIComponent works on characters. *)
(* A text built by a template literal is the sequence of its fragments.    *)
(***************************************************************************)
SENTINEL == "DUMMY_KEY_FOR_LOCAL_TESTS"

DefaultCity == <<"S", "y", "d", "n", "e", "y", ",", "A", "U">>

OtherCity == <<"R", "i", "o", " ", "X">>

\* An environment variable is unset, or set to a string (possibly empty).
Unset(empty) == [set |-> FALSE, value |-> empty]

SetTo(v) == [set |-> TRUE, value |-> v]

\* process.env.X || d : an unset variable (undefined) and the empty string
\* are falsy.
OrDefault(e, empty, d) == IF e.set /\ e.value # empty THEN e.value ELSE d

\* encodeURIComponent, character by character: letters are kept, the other
\* characters of the modelled cities are percent-escaped.
EncodeChar(c) ==
  CASE c = "," -> <<"%", "2", "C">>
    [] c = " " -> <<"%", "2", "0">>
    [] OTHER -> <<c>>

RECURSIVE encodeURIComponent(_)
encodeURIComponent(s) ==
  IF s = <<>> THEN <<>>
  ELSE EncodeChar(Head(s)) \o encodeURIComponent(Tail(s))

(***************************************************************************)
(* The fetch handler: pure parts.                                          *)
(***************************************************************************)
TimeoutMs == 8000

SecretId == "WeatherAPIKey"

\* line 20
CityOf(e) == OrDefault(e.CITY, <<>>, DefaultCity)

\* line 24
InjectedKey(e) == OrDefault(e.WEATHER_API_KEY, "", SENTINEL)

NeedsLookupAlways(apiKey) == TRUE

\* line 30
NeedsLookup(apiKey) == apiKey = SENTINEL \/ apiKey = ""

\* A GetSecretValue answer: SecretString is a string or undefined.
SecretTruthy(secret) == secret.has /\ secret.SecretString # ""

KeyAfterSecretUnchecked(apiKey, secret) == secret.SecretString

KeyAfterSecretIgnored(apiKey, secret) == apiKey

\* lines 35-36
KeyAfterSecret(apiKey, secret) ==
  IF SecretTruthy(secret) THEN secret.SecretString ELSE apiKey

IsDummyNever(apiKey) == apiKey = ""

\* line 46
IsDummy(apiKey) == apiKey = SENTINEL

SkipResultWithCount ==
  [ok |-> TRUE, kind |-> "skip", keys |-> {"ok", "message", "count"},
   message |-> "Skipped real API call (dummy key).", count |-> 0]

\* line 48: keys are the properties the returned object has
SkipResult ==
  [ok |-> TRUE, kind |-> "skip", keys |-> {"ok", "message"},
   message |-> "Skipped real API call (dummy key).", count |-> 0]

\* line 56: a result that has a count and no message
CountResult(n) ==
  [ok |-> TRUE, kind |-> "count", keys |-> {"ok", "count"},
   message |-> "", count |-> n]

NoResult ==
  [ok |-> FALSE, kind |-> "none", keys |-> {}, message |-> "", count |-> 0]

NoError == [thrown |-> FALSE, message |-> ""]

Error(m) == [thrown |-> TRUE, message |-> m]

\* line 52
Url(city, apiKey) ==
  <<"https://api.openweathermap.org/data/2.5/forecast?q=">>
    \o encodeURIComponent(city)
    \o <<"&appid=", apiKey, "&units=metric">>

\* The request of line 53.
GetRequest(city, apiKey) == [url |-> Url(city, apiKey), timeout |-> TimeoutMs]

(***************************************************************************)
(* JavaScript values a response body can become.                           *)
(***************************************************************************)
JNull == [t |-> "null", text |-> "", hasList |-> FALSE, list |-> <<>>]

JString(s) == [t |-> "string", text |-> s, hasList |-> FALSE, list |-> <<>>]

JObject(hasList, list) ==
  [t |-> "object", text |-> "", hasList |-> hasList, list |-> list]

Entry == [weather |-> <<[main |-> "Clear"]>>]

ListOf(n) == [k \in 1..n |-> Entry]

\* data?.list?.length ?? 0   (lines 55-56)
ListLength(data) ==
  IF data.t = "object" /\ data.hasList THEN Len(data.list) ELSE 0

(***************************************************************************)
(* What the collaborators can answer.                                      *)
(***************************************************************************)
SecretAnswers ==
  { [ok |-> TRUE, has |-> TRUE, SecretString |-> s, message |-> ""] :
      s \in {"REALKEY", "", SENTINEL} }
  \cup { [ok |-> TRUE, has |-> FALSE, SecretString |-> "", message |-> ""] }
  \cup { [ok |-> FALSE, has |-> FALSE, SecretString |-> "", message |-> m] :
      m \in {"ResourceNotFoundException", "AccessDeniedException",
             "InternalServiceError"} }

\* A body is a JSON text (and the value it parses to) or some other text.
JsonBody(v) == [parses |-> TRUE, value |-> v, raw |-> ""]

TextBody(s) == [parses |-> FALSE, value |-> JNull, raw |-> s]

Bodies ==
  { JsonBody(JObject(TRUE, ListOf(n))) : n \in 0..MaxList }
  \cup { JsonBody(JObject(FALSE, <<>>)), JsonBody(JNull),
         TextBody("<html>Bad Gateway</html>"), TextBody("") }

\* What the transport delivers for the GET: a response, a network error or
\* nothing before the timeout.
HttpAnswers ==
  { [kind |-> "response", status |-> 200, body |-> b, message |-> ""] :
      b \in Bodies }
  \cup { [kind |-> "response", status |-> st, body |-> TextBody(""),
          message |-> ""] : st \in {404, 500} }
  \cup { [kind |-> "neterr", status |-> 0, body |-> TextBody(""),
          message |-> "API down"],
         [kind |-> "timeout", status |-> 0, body |-> TextBody(""),
          message |-> ""] }

\* axios with its default validateStatus: 2xx resolves, the rest rejects.
Is2xx(st) == st >= 200 /\ st < 300

\* axios with no responseType and the default transitional options: a body
\* that is JSON is parsed, any other body is handed over as the raw string.
AxiosData(body) == IF body.parses THEN body.value ELSE JString(body.raw)

\* The error axios.get rejects with, per transport outcome.
AxiosError(a) ==
  CASE a.kind = "neterr" -> Error(a.message)
    [] a.kind = "timeout" -> Error("timeout of 8000ms exceeded")
    [] OTHER -> Error(IF a.status = 404
                      THEN "Request failed with status code 404"
                      ELSE "Request failed with status code 500")

AxiosResolves(a) == a.kind = "response" /\ Is2xx(a.status)

(***************************************************************************)
(* State of one invocation of handler.                                     *)
(***************************************************************************)
LogEntry(level, msg, strs, nums) ==
  [level |-> level, msg |-> msg, strs |-> strs, nums |-> nums]

NoSecretAnswer ==
  [ok |-> FALSE, has |-> FALSE, SecretString |-> "", message |-> "<none>"]

NoHttpAnswer ==
  [kind |-> "none", status |-> 0, body |-> TextBody(""), message |-> ""]

\* publishes are the messages the invocation sent to the notifications
\* topic: handler imports no SNS client and no statement of it publishes, so
\* no action adds to them.
FetchIdle ==
  [pc |-> "idle", city |-> <<>>, injected |-> "", apiKey |-> "",
   secretCalls |-> <<>>, secretAnswer |-> NoSecretAnswer,
   httpCalls |-> <<>>, httpAnswer |-> NoHttpAnswer,
   publishes |-> <<>>,
   result |-> NoResult, error |-> NoError, log |-> <<>>]

\* The answer of sns.send: a MessageId, or an error.
NoPublishAnswer == [kind |-> "none", message |-> ""]

PublishOk == [kind |-> "ok", message |-> ""]

PublishFailed(m) == [kind |-> "error", message |-> m]

AutoIdle ==
  [pc |-> "idle", r |-> 0, selected |-> "", branch |-> "",
   publishes |-> <<>>, publishAnswer |-> NoPublishAnswer, response |-> [statusCode |-> 0, condition |-> "",
                                      message |-> ""],
   error |-> NoError, log |-> <<>>]

Init ==
  /\ env \in [CITY : {Unset(<<>>), SetTo(<<>>), SetTo(DefaultCity),
                      SetTo(OtherCity)},
              WEATHER_API_KEY : {Unset(""), SetTo(""), SetTo(SENTINEL),
                                 SetTo("FAKE123")},
              AUTOMATION_TOPIC_ARN : {Unset(""),
                                      SetTo("arn:aws:sns:topic")}]
  /\ fetch = [i \in FetchIds |-> FetchIdle]
  /\ auto = [j \in AutoIds |-> AutoIdle]

(***************************************************************************)
(* handler, lines 45-53: the skip check and, past it, the GET.  Runs at    *)
(* the end of the step that settles the credential.                        *)
(***************************************************************************)
SkipOrGet(f) ==
  IF IsDummy(f.apiKey)
  THEN [f EXCEPT !.pc = "returned",
                 !.result = SkipResult,
                 !.log = @ \o <<LogEntry("log",
                    "[FetchWeather] No real API key found, skipping API call.",
                    <<>>, <<>>)>>]
  ELSE [f EXCEPT !.pc = "http",
                 !.httpCalls = @ \o <<GetRequest(f.city, f.apiKey)>>]

handlerStartCached(i) ==
  /\ fetch[i].pc = "idle"
  /\ LET cached == {fetch[o].apiKey : o \in
                      {o \in FetchIds : SecretTruthy(fetch[o].secretAnswer)}}
         key == IF cached # {} THEN CHOOSE c \in cached : TRUE
                ELSE InjectedKey(env)
         f0 == [fetch[i] EXCEPT
                  !.city = CityOf(env),
                  !.injected = InjectedKey(env),
                  !.apiKey = key]
     IN fetch' = [fetch EXCEPT ![i] =
          IF NeedsLookup(f0.apiKey)
          THEN [f0 EXCEPT !.pc = "secret",
                          !.secretCalls = @ \o <<SecretId>>]
          ELSE SkipOrGet(f0)]
  /\ UNCHANGED <<env, auto>>

handlerStartEager(i) ==
  /\ fetch[i].pc = "idle"
  /\ LET f0 == [fetch[i] EXCEPT
                  !.city = CityOf(env),
                  !.injected = InjectedKey(env),
                  !.apiKey = InjectedKey(env)]
     IN fetch' = [fetch EXCEPT ![i] =
          IF NeedsLookup(f0.apiKey)
          THEN [f0 EXCEPT !.pc = "secret",
                          !.secretCalls = @ \o <<SecretId>>,
                          !.httpCalls = @ \o <<GetRequest(f0.city, f0.apiKey)>>]
          ELSE SkipOrGet(f0)]
  /\ UNCHANGED <<env, auto>>

\* handler, lines 20-34 (and 45-53 when no lookup is needed)
handlerStart(i) ==
  /\ fetch[i].pc = "idle"
  /\ LET f0 == [fetch[i] EXCEPT
                  !.city = CityOf(env),
                  !.injected = InjectedKey(env),
                  !.apiKey = InjectedKey(env),
                  !.log = @ \o <<LogEntry("log",
                     "[FetchWeather] Starting run for city:",
                     CityOf(env), <<>>)>>]
     IN fetch' = [fetch EXCEPT ![i] =
          IF NeedsLookup(f0.apiKey)
          THEN [f0 EXCEPT !.pc = "secret",
                          !.secretCalls = @ \o <<SecretId>>]
          ELSE SkipOrGet(f0)]
  /\ UNCHANGED <<env, auto>>

handlerSecretRejectedRethrow(i, a) ==
  /\ fetch[i].pc = "secret"
  /\ ~a.ok
  /\ fetch' = [fetch EXCEPT ![i] =
       [fetch[i] EXCEPT !.pc = "thrown", !.secretAnswer = a,
                        !.error = Error(a.message)]]
  /\ UNCHANGED <<env, auto>>

handlerSecretResolvedWritesEnv(i, a) ==
  /\ fetch[i].pc = "secret"
  /\ a.ok
  /\ LET f1 == [fetch[i] EXCEPT
                  !.secretAnswer = a,
                  !.apiKey = KeyAfterSecret(@, a),
                  !.log = IF SecretTruthy(a)
                          THEN @ \o <<LogEntry("log",
                            "[FetchWeather] Retrieved real API key from Secrets Manager.",
                            <<>>, <<>>)>>
                          ELSE @]
     IN fetch' = [fetch EXCEPT ![i] = SkipOrGet(f1)]
  /\ env' = IF SecretTruthy(a)
            THEN [env EXCEPT !.WEATHER_API_KEY = SetTo(a.SecretString)]
            ELSE env
  /\ UNCHANGED auto

handlerSecretResolvedLogsKey(i, a) ==
  /\ fetch[i].pc = "secret"
  /\ a.ok
  /\ LET f1 == [fetch[i] EXCEPT
                  !.secretAnswer = a,
                  !.apiKey = KeyAfterSecret(@, a),
                  !.log = IF SecretTruthy(a)
                          THEN @ \o <<LogEntry("log",
                            "[FetchWeather] Retrieved real API key from Secrets Manager.",
                            <<a.SecretString>>, <<>>)>>
                          ELSE @]
     IN fetch' = [fetch EXCEPT ![i] = SkipOrGet(f1)]
  /\ UNCHANGED <<env, auto>>

\* handler, lines 35-38 then 45-53: the lookup succeeded
handlerSecretResolved(i, a) ==
  /\ fetch[i].pc = "secret"
  /\ a.ok
  /\ LET f1 == [fetch[i] EXCEPT
                  !.secretAnswer = a,
                  !.apiKey = KeyAfterSecret(@, a),
                  !.log = IF SecretTruthy(a)
                          THEN @ \o <<LogEntry("log",
                            "[FetchWeather] Retrieved real API key from Secrets Manager.",
                            <<>>, <<>>)>>
                          ELSE @]
     IN fetch' = [fetch EXCEPT ![i] = SkipOrGet(f1)]
  /\ UNCHANGED <<env, auto>>

\* handler, lines 39-42 then 45-53: the lookup failed
handlerSecretRejected(i, a) ==
  /\ fetch[i].pc = "secret"
  /\ ~a.ok
  /\ LET f1 == [fetch[i] EXCEPT
                  !.secretAnswer = a,
                  !.log = @ \o <<LogEntry("warn",
                     "[FetchWeather] Could not retrieve secret, continuing with dummy key.",
                     <<a.message>>, <<>>)>>]
     IN fetch' = [fetch EXCEPT ![i] = SkipOrGet(f1)]
  /\ UNCHANGED <<env, auto>>

handlerHttpResolvedNoChaining(i, a) ==
  /\ fetch[i].pc = "http"
  /\ AxiosResolves(a)
  /\ LET data == AxiosData(a.body)
     IN fetch' = [fetch EXCEPT ![i] =
          IF data.t = "object" /\ data.hasList
          THEN [fetch[i] EXCEPT !.pc = "returned", !.httpAnswer = a,
                                !.result = CountResult(Len(data.list))]
          ELSE [fetch[i] EXCEPT !.pc = "thrown", !.httpAnswer = a,
                  !.error = Error("Cannot read properties of undefined")]]
  /\ UNCHANGED <<env, auto>>

\* handler, lines 53-56: axios.get resolved
handlerHttpResolved(i, a) ==
  /\ fetch[i].pc = "http"
  /\ AxiosResolves(a)
  /\ LET data == AxiosData(a.body)
     IN fetch' = [fetch EXCEPT ![i] =
          [fetch[i] EXCEPT
             !.pc = "returned",
             !.httpAnswer = a,
             !.result = CountResult(ListLength(data)),
             !.log = @ \o <<LogEntry("log",
                "[FetchWeather] Forecast list length:",
                <<>>, <<ListLength(data)>>)>>]]
  /\ UNCHANGED <<env, auto>>

handlerHttpRejectedSwallow(i, a) ==
  /\ fetch[i].pc = "http"
  /\ ~AxiosResolves(a)
  /\ fetch' = [fetch EXCEPT ![i] =
       [fetch[i] EXCEPT !.pc = "returned", !.httpAnswer = a,
                        !.result = CountResult(0)]]
  /\ UNCHANGED <<env, auto>>

handlerHttpRejectedRetry(i, a) ==
  /\ fetch[i].pc = "http"
  /\ ~AxiosResolves(a)
  /\ fetch' = [fetch EXCEPT ![i] =
       IF Len(fetch[i].httpCalls) < 2
       THEN [fetch[i] EXCEPT !.httpAnswer = a,
               !.httpCalls = @ \o <<GetRequest(fetch[i].city, fetch[i].apiKey)>>]
       ELSE [fetch[i] EXCEPT !.pc = "thrown", !.httpAnswer = a,
                             !.error = AxiosError(a)]]
  /\ UNCHANGED <<env, auto>>

\* handler, lines 57-60: axios.get rejected
handlerHttpRejected(i, a) ==
  /\ fetch[i].pc = "http"
  /\ ~AxiosResolves(a)
  /\ fetch' = [fetch EXCEPT ![i] =
       [fetch[i] EXCEPT
          !.pc = "thrown",
          !.httpAnswer = a,
          !.error = AxiosError(a),
          !.log = @ \o <<LogEntry("error",
             "[FetchWeather] Error fetching data:",
             <<AxiosError(a).message>>, <<>>)>>]]
  /\ UNCHANGED <<env, auto>>

handlerTimedOutNever(i) ==
  /\ fetch[i].pc = "unlimited"
  /\ UNCHANGED vars

\* The function of the stack runs with timeout: cdk.Duration.seconds(20):
\* the runtime ends an invocation that is still awaiting an answer then, and
\* reports it as failed.
handlerTimedOut(i) ==
  /\ fetch[i].pc \in {"secret", "http"}
  /\ fetch' = [fetch EXCEPT ![i] =
       [fetch[i] EXCEPT
          !.pc = "killed",
          !.error = Error("Task timed out after 20.00 seconds")]]
  /\ UNCHANGED <<env, auto>>

NextFetch ==
  \E i \in FetchIds :
    \/ handlerStart(i)
    \/ handlerTimedOut(i)
    \/ \E a \in SecretAnswers : handlerSecretResolved(i, a)
    \/ \E a \in SecretAnswers : handlerSecretRejected(i, a)
    \/ \E a \in HttpAnswers : handlerHttpResolved(i, a)
    \/ \E a \in HttpAnswers : handlerHttpRejected(i, a)

SpecFetch == Init /\ [][NextFetch]_vars

\* What the code guarantees about progress: axios.get is given timeout: 8000,
\* so the GET is answered (at the latest by the timeout error), and the
\* runtime ends an invocation at the function timeout.  The secret lookup is
\* sent with no timeout of its own, so nothing says when it is answered.
FairFetch ==
  \A i \in FetchIds :
    /\ WF_vars(\E a \in HttpAnswers :
                 handlerHttpResolved(i, a) \/ handlerHttpRejected(i, a))
    /\ WF_vars(handlerTimedOut(i))

\* The function as the stack deploys it: CITY and AUTOMATION_TOPIC_ARN are
\* the values of the stack's environment block (neither decides a branch of
\* handler); WEATHER_API_KEY is left open.
InitDeployed ==
  /\ Init
  /\ env.CITY = SetTo(DefaultCity)
  /\ env.AUTOMATION_TOPIC_ARN = SetTo("arn:aws:sns:topic")

SpecFetchFair == InitDeployed /\ [][NextFetch]_vars /\ FairFetch

(***************************************************************************)
(* The automation handler.                                                 *)
(***************************************************************************)
\* line 33
conditions == <<"Clear", "Rain", "Storm", "Cloudy">>

SelectRound(k) ==
  LET idx == ((2 * k * Len(conditions)) + RandDen) \div (2 * RandDen)
  IN IF idx + 1 \in DOMAIN conditions THEN conditions[idx + 1]
     ELSE "undefined"

\* line 34: conditions[Math.floor(Math.random() * conditions.length)] for
\* the draw k / RandDen (JavaScript indexes from 0, TLA+ from 1)
Select(k) == conditions[((k * Len(conditions)) \div RandDen) + 1]

\* line 56
RainMessage == "Automated notice: Rain detected. IoT watering system paused."

\* lines 54-57
PublishCommand(e) ==
  [TopicArn |-> e.AUTOMATION_TOPIC_ARN, Message |-> RainMessage]

BranchFallThrough(selected) ==
  CASE selected = "Storm" -> "Rain"
    [] selected = "Rain" -> "Rain"
    [] selected = "Clear" -> "Clear"
    [] OTHER -> "default"

BranchNoClear(selected) ==
  CASE selected = "Storm" -> "Storm"
    [] selected = "Rain" -> "Rain"
    [] OTHER -> "default"

\* lines 41-72: the case of the switch that runs
Branch(selected) ==
  CASE selected = "Storm" -> "Storm"
    [] selected = "Rain" -> "Rain"
    [] selected = "Clear" -> "Clear"
    [] OTHER -> "default"

\* lines 43, 49, 62, 68
BranchLog(branch) ==
  CASE branch = "Storm" ->
         "[AutomationHandler] Detected storm. Simulating IoT device shutdown."
    [] branch = "Rain" ->
         "[AutomationHandler] Detected rain. Sending SNS notification."
    [] branch = "Clear" ->
         "[AutomationHandler] Clear weather. Simulating backup trigger."
    [] OTHER ->
         "[AutomationHandler] Cloudy weather. No automation required."

\* lines 42-71: what the case that runs does: the storm case only logs the
\* simulated shutdown, the rain case publishes, the clear case only logs the
\* simulated backup, the default case does nothing.
ActionKind(branch) ==
  CASE branch = "Storm" -> "ShutdownSimulated"
    [] branch = "Rain" -> "NotifyPublished"
    [] branch = "Clear" -> "BackupSimulated"
    [] OTHER -> "NoOp"

ResponseFirstCondition(selected) ==
  [statusCode |-> 200, condition |-> conditions[1],
   message |-> "Automation simulation complete."]

\* lines 77-81
Response(selected) ==
  [statusCode |-> 200, condition |-> selected,
   message |-> "Automation simulation complete."]

PublishErrors == {"Throttled", "AuthorizationError", "InternalFailure"}

mainStartFromFetch(j, k) ==
  /\ auto[j].pc = "idle"
  /\ LET selected == IF \E i \in FetchIds : fetch[i].result.count > 0
                     THEN "Rain" ELSE Select(k)
         branch == Branch(selected)
         a0 == [auto[j] EXCEPT !.r = k, !.selected = selected,
                               !.branch = branch]
     IN auto' = [auto EXCEPT ![j] =
          IF branch = "Rain"
          THEN [a0 EXCEPT !.pc = "publish",
                          !.publishes = @ \o <<PublishCommand(env)>>]
          ELSE [a0 EXCEPT !.pc = "returned",
                          !.response = Response(selected)]]
  /\ UNCHANGED <<env, fetch>>

mainStartNoAwait(j, k) ==
  /\ auto[j].pc = "idle"
  /\ LET selected == Select(k)
         branch == Branch(selected)
         a0 == [auto[j] EXCEPT !.r = k, !.selected = selected,
                               !.branch = branch,
                               !.response = Response(selected)]
     IN auto' = [auto EXCEPT ![j] =
          IF branch = "Rain"
          THEN [a0 EXCEPT !.pc = "publish",
                          !.publishes = @ \o <<PublishCommand(env)>>]
          ELSE [a0 EXCEPT !.pc = "returned"]]
  /\ UNCHANGED <<env, fetch>>

mainStartDeduplicated(j, k) ==
  /\ auto[j].pc = "idle"
  /\ LET selected == Select(k)
         branch == Branch(selected)
         a0 == [auto[j] EXCEPT !.r = k, !.selected = selected,
                               !.branch = branch]
     IN auto' = [auto EXCEPT ![j] =
          IF branch = "Rain" /\ \A o \in AutoIds : auto[o].publishes = <<>>
          THEN [a0 EXCEPT !.pc = "publish",
                          !.publishes = @ \o <<PublishCommand(env)>>]
          ELSE [a0 EXCEPT !.pc = "returned",
                          !.response = Response(selected)]]
  /\ UNCHANGED <<env, fetch>>

\* main, lines 27-59 (and 77-81 in the branches that do not await)
mainStart(j, k) ==
  /\ auto[j].pc = "idle"
  /\ LET selected == Select(k)
         branch == Branch(selected)
         a0 == [auto[j] EXCEPT
                  !.r = k,
                  !.selected = selected,
                  !.branch = branch,
                  !.log = @ \o <<
                     LogEntry("log", "[AutomationHandler] Event received:",
                              <<"{}">>, <<>>),
                     LogEntry("log",
                              "[AutomationHandler] Simulated weather condition: ",
                              <<selected>>, <<>>),
                     LogEntry("log", BranchLog(branch), <<>>, <<>>)>>]
     IN auto' = [auto EXCEPT ![j] =
          IF branch = "Rain"
          THEN [a0 EXCEPT !.pc = "publish",
                          !.publishes = @ \o <<PublishCommand(env)>>]
          ELSE [a0 EXCEPT !.pc = "returned",
                          !.response = Response(selected)]]
  /\ UNCHANGED <<env, fetch>>

\* main, lines 53-59 then 77-81: sns.send resolved
mainPublishResolved(j) ==
  /\ auto[j].pc = "publish"
  /\ auto' = [auto EXCEPT ![j] =
       [auto[j] EXCEPT !.pc = "returned",
                       !.publishAnswer = PublishOk,
                       !.response = Response(auto[j].selected)]]
  /\ UNCHANGED <<env, fetch>>

mainPublishRejectedCaught(j, m) ==
  /\ auto[j].pc = "publish"
  /\ auto' = [auto EXCEPT ![j] =
       [auto[j] EXCEPT !.pc = "returned",
                       !.publishAnswer = PublishFailed(m),
                       !.response = Response(auto[j].selected)]]
  /\ UNCHANGED <<env, fetch>>

\* main, line 53: sns.send rejected, nothing catches it
mainPublishRejected(j, m) ==
  /\ auto[j].pc = "publish"
  /\ auto' = [auto EXCEPT ![j] =
       [auto[j] EXCEPT !.pc = "thrown",
                       !.publishAnswer = PublishFailed(m),
                       !.error = Error(m)]]
  /\ UNCHANGED <<env, fetch>>

NextAuto ==
  \E j \in AutoIds :
    \/ \E k \in 0..(RandDen - 1) : mainStart(j, k)
    \/ mainPublishResolved(j)
    \/ \E m \in PublishErrors : mainPublishRejected(j, m)

\* The automation function as its stack deploys it: the environment block
\* sets AUTOMATION_TOPIC_ARN only (left open here), so CITY and
\* WEATHER_API_KEY are unset; main reads neither.
InitAutomation ==
  /\ Init
  /\ env.CITY = Unset(<<>>)
  /\ env.WEATHER_API_KEY = Unset("")

SpecAuto == InitAutomation /\ [][NextAuto]_vars

Next == NextFetch \/ NextAuto

Spec == Init /\ [][Next]_vars

\* Both functions deployed side by side, each on its own schedule: an
\* invocation of main interleaves in any order with the invocations of
\* handler.
BothIds == 1..NumBoth

NextBoth ==
  \/ \E i \in BothIds :
       \/ handlerStart(i)
       \/ handlerTimedOut(i)
       \/ \E a \in SecretAnswers : handlerSecretResolved(i, a)
       \/ \E a \in SecretAnswers : handlerSecretRejected(i, a)
       \/ \E a \in HttpAnswers : handlerHttpResolved(i, a)
       \/ \E a \in HttpAnswers : handlerHttpRejected(i, a)
  \/ \E k \in 0..(RandDen - 1) : mainStart(1, k)
  \/ mainPublishResolved(1)
  \/ \E m \in PublishErrors : mainPublishRejected(1, m)

SpecBoth == Init /\ [][NextBoth]_vars


(***************************************************************************)
(* Properties of the fetch handler (checked under SpecFetch).              *)
(***************************************************************************)
\* The credential has been settled: the invocation is past the optional
\* secret lookup.
Resolved(f) == f.pc \in {"http", "returned", "thrown"}

\* The injected credential is absent: unset, empty or the sentinel.
InjectedAbsent ==
  \/ ~env.WEATHER_API_KEY.set
  \/ env.WEATHER_API_KEY.value \in {"", SENTINEL}

\* C1: whenever the credential in effect after resolution is the sentinel,
\* the invocation has issued no HTTP GET and has returned exactly
\* {ok: true, message: "Skipped real API call (dummy key)."}.
C1_SentinelSkips ==
  \A i \in FetchIds :
    (Resolved(fetch[i]) /\ fetch[i].apiKey = "DUMMY_KEY_FOR_LOCAL_TESTS") =>
      /\ fetch[i].httpCalls = <<>>
      /\ fetch[i].pc = "returned"
      /\ fetch[i].error = NoError
      /\ fetch[i].result.ok
      /\ fetch[i].result.kind = "skip"
      /\ fetch[i].result.message = "Skipped real API call (dummy key)."

C1_Witness ==
  \E i \in FetchIds :
    /\ fetch[i].pc = "returned"
    /\ fetch[i].apiKey = "DUMMY_KEY_FOR_LOCAL_TESTS"
    /\ fetch[i].result.kind = "skip"
    /\ fetch[i].httpCalls = <<>>

\* The GET of invocation i was answered and the answer is a failure: a
\* network error, a timeout or a status outside 2xx.
GetFailed(f) ==
  \/ f.httpAnswer.kind \in {"neterr", "timeout"}
  \/ f.httpAnswer.kind = "response" /\ ~Is2xx(f.httpAnswer.status)

C3_LookupFailureSkips ==
  \A i \in FetchIds :
    (fetch[i].secretAnswer # NoSecretAnswer /\ ~fetch[i].secretAnswer.ok) =>
      /\ fetch[i].pc = "returned"
      /\ fetch[i].error = NoError
      /\ fetch[i].apiKey = SENTINEL
      /\ fetch[i].result = SkipResult
      /\ fetch[i].httpCalls = <<>>

C3_Witness ==
  \E i \in FetchIds :
    /\ fetch[i].secretAnswer.message = "AccessDeniedException"
    /\ fetch[i].pc = "returned"
    /\ fetch[i].result = SkipResult

\* C4: an injected credential that is non-empty and not the sentinel is used
\* unchanged for the outbound call, with no secret-store lookup.
C4_InjectedKeyUsed ==
  \A i \in FetchIds :
    (fetch[i].pc # "idle" /\ ~InjectedAbsent) =>
      /\ fetch[i].secretCalls = <<>>
      /\ fetch[i].apiKey = env.WEATHER_API_KEY.value
      /\ Len(fetch[i].httpCalls) = 1
      /\ fetch[i].httpCalls[1].url =
           <<"https://api.openweathermap.org/data/2.5/forecast?q=">>
             \o encodeURIComponent(fetch[i].city)
             \o <<"&appid=", env.WEATHER_API_KEY.value, "&units=metric">>

C4_Witness ==
  \E i \in FetchIds :
    /\ env.WEATHER_API_KEY = SetTo("FAKE123")
    /\ fetch[i].pc = "returned"
    /\ fetch[i].result.kind = "count"
    /\ fetch[i].secretCalls = <<>>

\* C5 as stated: with an absent injected credential, resolution returns the
\* sentinel and makes at most the one fallback lookup.
C5_AsStated ==
  \A i \in FetchIds :
    (Resolved(fetch[i]) /\ InjectedAbsent) =>
      /\ fetch[i].apiKey = SENTINEL
      /\ Len(fetch[i].secretCalls) <= 1

\* C5 amended: with an absent injected credential, resolution makes exactly
\* the one fallback lookup and returns the sentinel unless that lookup
\* succeeded with a non-empty secret string, which it then returns.
C5_AbsentResolvesBySingleLookup ==
  \A i \in FetchIds :
    (Resolved(fetch[i]) /\ InjectedAbsent) =>
      /\ fetch[i].secretCalls = <<"WeatherAPIKey">>
      /\ fetch[i].apiKey =
           IF /\ fetch[i].secretAnswer.ok
              /\ fetch[i].secretAnswer.has
              /\ fetch[i].secretAnswer.SecretString # ""
           THEN fetch[i].secretAnswer.SecretString
           ELSE SENTINEL

C5_Witness ==
  \E i \in FetchIds :
    /\ env.WEATHER_API_KEY = SetTo("")
    /\ Resolved(fetch[i])
    /\ fetch[i].secretAnswer.ok
    /\ ~fetch[i].secretAnswer.has
    /\ fetch[i].apiKey = SENTINEL
    /\ Len(fetch[i].secretCalls) = 1

\* The lookup of invocation i succeeded and returned a string.
LookupReturnedString(f) == f.secretAnswer.ok /\ f.secretAnswer.has

\* C6 as stated: absent injected credential and a lookup returning a string
\* s: the credential is s and the GET is issued with appid = s.
C6_AsStated ==
  \A i \in FetchIds :
    (Resolved(fetch[i]) /\ InjectedAbsent /\ LookupReturnedString(fetch[i])) =>
      /\ fetch[i].apiKey = fetch[i].secretAnswer.SecretString
      /\ Len(fetch[i].httpCalls) = 1
      /\ fetch[i].httpCalls[1].url[Len(fetch[i].httpCalls[1].url) - 1] =
           fetch[i].secretAnswer.SecretString

\* C6 amended: absent injected credential and a lookup returning a non-empty
\* string s: the credential is s, and if s is not the sentinel the GET is
\* issued with appid = s (if s is the sentinel no GET is issued).
C6_SecretUsedForGet ==
  \A i \in FetchIds :
    ( /\ Resolved(fetch[i])
      /\ InjectedAbsent
      /\ LookupReturnedString(fetch[i])
      /\ fetch[i].secretAnswer.SecretString # "" ) =>
      LET s == fetch[i].secretAnswer.SecretString
      IN /\ fetch[i].apiKey = s
         /\ IF s = SENTINEL
            THEN fetch[i].httpCalls = <<>>
            ELSE /\ Len(fetch[i].httpCalls) = 1
                 /\ fetch[i].httpCalls[1].url =
                      <<"https://api.openweathermap.org/data/2.5/forecast?q=">>
                        \o encodeURIComponent(fetch[i].city)
                        \o <<"&appid=", s, "&units=metric">>

C6_Witness ==
  \E i \in FetchIds :
    /\ InjectedAbsent
    /\ fetch[i].secretAnswer.SecretString = "REALKEY"
    /\ fetch[i].pc = "http"
    /\ Len(fetch[i].httpCalls) = 1

\* The number of entries of the list of a parsed response value: 0 when the
\* value is null or has no list.
Entries(v) == IF v.t = "object" /\ v.hasList THEN Len(v.list) ELSE 0

\* C7: with a usable credential and a successful response, the handler
\* returns {ok: true, count: n}, n the number of entries of the response's
\* list; an empty list, a missing list and no data all give count 0.
C7_CountOfList ==
  \A i \in FetchIds :
    ( /\ fetch[i].httpAnswer.kind = "response"
      /\ Is2xx(fetch[i].httpAnswer.status)
      /\ fetch[i].httpAnswer.body.parses ) =>
      /\ fetch[i].pc = "returned"
      /\ fetch[i].error = NoError
      /\ fetch[i].result.ok
      /\ fetch[i].result.kind = "count"
      /\ fetch[i].result.count = Entries(fetch[i].httpAnswer.body.value)

C7_Witness ==
  /\ \E i \in FetchIds :
       /\ fetch[i].httpAnswer.body = JsonBody(JObject(TRUE, ListOf(5)))
       /\ fetch[i].result = CountResult(5)
  /\ \E i \in FetchIds :
       /\ fetch[i].httpAnswer.body \in
            {JsonBody(JObject(FALSE, <<>>)), JsonBody(JNull)}
       /\ fetch[i].httpAnswer.status = 200
       /\ fetch[i].result = CountResult(0)

\* C8: a 2xx response with an unparseable body gives no success value: the
\* invocation fails with an error.
C8_UnparseableBodyFails ==
  \A i \in FetchIds :
    ( /\ fetch[i].httpAnswer.kind = "response"
      /\ Is2xx(fetch[i].httpAnswer.status)
      /\ ~fetch[i].httpAnswer.body.parses ) =>
      /\ fetch[i].pc = "thrown"
      /\ fetch[i].error.thrown
      /\ fetch[i].result = NoResult

C10_PublishOnlyOnRain ==
  \A j \in AutoIds :
    auto[j].pc # "idle" =>
      /\ auto[j].selected \in {"Clear", "Rain", "Storm", "Cloudy"}
      /\ auto[j].selected = "Rain" =>
           /\ Len(auto[j].publishes) = 1
           /\ auto[j].publishes[1].TopicArn = env.AUTOMATION_TOPIC_ARN
           /\ auto[j].publishes[1].Message =
                "Automated notice: Rain detected. IoT watering system paused."
           /\ auto[j].publishes[1].Message # ""
      /\ auto[j].selected # "Rain" => auto[j].publishes = <<>>

C10_Witness ==
  /\ \E j \in AutoIds :
       /\ auto[j].selected = "Rain"
       /\ auto[j].pc = "returned"
       /\ Len(auto[j].publishes) = 1
  /\ \E j \in AutoIds :
       /\ auto[j].selected = "Storm"
       /\ auto[j].pc = "returned"
       /\ auto[j].publishes = <<>>


NoResponse == [statusCode |-> 0, condition |-> "", message |-> ""]

\* C11: when the publish of the Rain branch fails, the invocation fails with
\* that publish error and returns no response; an invocation fails in no
\* other case.
C11_PublishFailurePropagates ==
  \A j \in AutoIds :
    /\ auto[j].publishAnswer.kind = "error" =>
         /\ auto[j].pc = "thrown"
         /\ auto[j].error = Error(auto[j].publishAnswer.message)
         /\ auto[j].response = NoResponse
         /\ Len(auto[j].publishes) = 1
    /\ (auto[j].pc = "thrown" \/ auto[j].error.thrown) =>
         /\ auto[j].selected = "Rain"
         /\ auto[j].publishAnswer.kind = "error"

C11_Witness ==
  \E j \in AutoIds :
    /\ auto[j].selected = "Rain"
    /\ auto[j].publishAnswer = PublishFailed("Throttled")
    /\ auto[j].pc = "thrown"
    /\ auto[j].error.message = "Throttled"


\* The action the dispatch table gives for a condition.
TableAction(c) ==
  CASE c = "Storm" -> "ShutdownSimulated"
    [] c = "Rain" -> "NotifyPublished"
    [] c = "Clear" -> "BackupSimulated"
    [] c = "Cloudy" -> "NoOp"
    [] OTHER -> "none"

\* The invocation is over: it returned or it failed.
AutoDone(a) == a.pc \in {"returned", "thrown"}

C13_SuccessResponse ==
  \A j \in AutoIds :
    ( /\ auto[j].pc \notin {"idle", "publish"}
      /\ auto[j].publishAnswer.kind # "error" ) =>
      /\ auto[j].pc = "returned"
      /\ auto[j].error = NoError
      /\ auto[j].response.statusCode = 200
      /\ auto[j].response.condition = auto[j].selected
      /\ auto[j].response.condition = conditions[((auto[j].r * 4) \div RandDen) + 1]
      /\ auto[j].response.message = "Automation simulation complete."
      /\ auto[j].selected = "Rain" => auto[j].publishAnswer.kind = "ok"

C13_Witness ==
  /\ \E j \in AutoIds :
       /\ auto[j].selected = "Rain"
       /\ auto[j].publishAnswer.kind = "ok"
       /\ auto[j].response.statusCode = 200
       /\ auto[j].response.condition = "Rain"
  /\ \E j \in AutoIds :
       /\ auto[j].selected = "Cloudy"
       /\ auto[j].response.statusCode = 200
       /\ auto[j].response.condition = "Cloudy"

\* C14: the condition selected is in every invocation one of Clear, Rain,
\* Storm, Cloudy, for every value Math.random() can return; it is never
\* undefined or a fifth value.
C14_SelectedIsCondition ==
  /\ \A k \in 0..(RandDen - 1) :
       Select(k) \in {"Clear", "Rain", "Storm", "Cloudy"}
  /\ \A j \in AutoIds :
       auto[j].pc # "idle" =>
         /\ auto[j].selected \in {"Clear", "Rain", "Storm", "Cloudy"}
         /\ auto[j].response.condition \in
              {"", "Clear", "Rain", "Storm", "Cloudy"}

C14_Witness ==
  \E j \in AutoIds :
    /\ auto[j].pc = "returned"
    /\ auto[j].r = RandDen - 1
    /\ auto[j].selected = "Cloudy"


\* The appid parameter of a request url: the fragment before "&units=metric".
Appid(url) == url[Len(url) - 1]

\* C15: an HTTP GET is issued only with a credential that is non-empty and
\* not the sentinel, also when the injected credential is empty and when the
\* secret store returns an empty, missing or sentinel secret string.
C15_GetOnlyWithRealKey ==
  \A i \in FetchIds :
    /\ \A n \in DOMAIN fetch[i].httpCalls :
         /\ Appid(fetch[i].httpCalls[n].url) # ""
         /\ Appid(fetch[i].httpCalls[n].url) # "DUMMY_KEY_FOR_LOCAL_TESTS"
    /\ ( /\ InjectedAbsent
         /\ fetch[i].secretAnswer # NoSecretAnswer
         /\ \/ ~fetch[i].secretAnswer.ok
            \/ ~fetch[i].secretAnswer.has
            \/ fetch[i].secretAnswer.SecretString \in {"", SENTINEL} ) =>
         fetch[i].httpCalls = <<>>

C15_Witness ==
  /\ env.WEATHER_API_KEY = SetTo("")
  /\ \E i \in FetchIds :
       /\ fetch[i].secretAnswer.has
       /\ fetch[i].secretAnswer.SecretString = SENTINEL
       /\ fetch[i].pc = "returned"
       /\ fetch[i].httpCalls = <<>>
  /\ \E i \in FetchIds :
       /\ Len(fetch[i].httpCalls) = 1
       /\ Appid(fetch[i].httpCalls[1].url) = "REALKEY"

\* A call of invocation i that has been sent and not answered.
SecretOutstanding(f) == f.secretCalls # <<>> /\ f.secretAnswer = NoSecretAnswer

HttpOutstanding(f) == f.httpCalls # <<>> /\ f.httpAnswer = NoHttpAnswer

\* C16: within one invocation the steps are sequential: the GET is never
\* issued while the secret lookup is unanswered, a count is returned only
\* after the GET was answered, and at most one external call is outstanding
\* at any time.
C16_StepsSequential ==
  \A i \in FetchIds :
    /\ fetch[i].httpCalls # <<>> => ~SecretOutstanding(fetch[i])
    /\ ~(SecretOutstanding(fetch[i]) /\ HttpOutstanding(fetch[i]))
    /\ Len(fetch[i].secretCalls) + Len(fetch[i].httpCalls) <= 2
    /\ fetch[i].pc = "returned" =>
         ~SecretOutstanding(fetch[i]) /\ ~HttpOutstanding(fetch[i])

C16_Witness ==
  \E i \in FetchIds :
    /\ Len(fetch[i].secretCalls) = 1
    /\ fetch[i].secretAnswer.ok
    /\ fetch[i].pc = "http"
    /\ HttpOutstanding(fetch[i])


\* The publish calls of the invocations 1..n together.
RECURSIVE TotalPublishes(_)
TotalPublishes(n) ==
  IF n = 0 THEN 0 ELSE Len(auto[n].publishes) + TotalPublishes(n - 1)

\* C17: publishes are not deduplicated and invocations do not exclude each
\* other: in every interleaving the number of publish calls is the number
\* of invocations that selected Rain.
C17_PublishPerRainInvocation ==
  TotalPublishes(NumAuto) =
    Cardinality({j \in AutoIds : auto[j].selected = "Rain"})

C17_Witness ==
  /\ \A j \in 1..2 : auto[j].selected = "Rain" /\ auto[j].pc = "publish"
  /\ TotalPublishes(2) = 2


(***************************************************************************)
(* Termination of the fetch handler (checked under SpecFetchFair).         *)
(***************************************************************************)
\* The invocation is over: it returned a result, it threw, or the runtime
\* ended it at the function timeout.
FetchDone(f) == f.pc \in {"returned", "thrown", "killed"}

C19_OutcomesDistinct ==
  \A i \in FetchIds :
    /\ ~({"message", "count"} \subseteq fetch[i].result.keys)
    /\ fetch[i].pc = "returned" =>
         /\ fetch[i].error = NoError
         /\ fetch[i].result.ok
         /\ \/ /\ fetch[i].result.keys = {"ok", "message"}
               /\ fetch[i].result.message # ""
               /\ fetch[i].httpCalls = <<>>
            \/ /\ fetch[i].result.keys = {"ok", "count"}
               /\ fetch[i].result.count >= 0
               /\ fetch[i].httpAnswer # NoHttpAnswer
    /\ fetch[i].pc # "returned" => fetch[i].result.keys = {}
    /\ fetch[i].pc \in {"thrown", "killed"} => fetch[i].error.thrown

C19_Witness ==
  /\ \E i \in FetchIds :
       fetch[i].pc = "returned" /\ fetch[i].result.keys = {"ok", "message"}
  /\ \E i \in FetchIds :
       fetch[i].pc = "returned" /\ fetch[i].result.keys = {"ok", "count"}


\* C20: the credential is resolved once per invocation and not kept for
\* another: every invocation whose injected credential is absent makes its
\* own single lookup, its credential comes from its own lookup's answer only,
\* and if that lookup fails it skips, whatever the other invocations
\* retrieved.
C20_CredentialPerInvocation ==
  \A i \in FetchIds :
    (fetch[i].pc # "idle" /\ InjectedAbsent) =>
      /\ fetch[i].secretCalls = <<"WeatherAPIKey">>
      /\ fetch[i].apiKey \in
           {"DUMMY_KEY_FOR_LOCAL_TESTS", fetch[i].secretAnswer.SecretString}
      /\ (fetch[i].secretAnswer # NoSecretAnswer /\ ~fetch[i].secretAnswer.ok) =>
           /\ fetch[i].apiKey = "DUMMY_KEY_FOR_LOCAL_TESTS"
           /\ fetch[i].pc = "returned"
           /\ fetch[i].result.kind = "skip"
           /\ fetch[i].httpCalls = <<>>

C20_Witness ==
  \E i, o \in FetchIds :
    /\ i # o
    /\ fetch[o].secretAnswer.SecretString = "REALKEY"
    /\ fetch[o].apiKey = "REALKEY"
    /\ fetch[o].pc = "returned"
    /\ Len(fetch[i].secretCalls) = 1
    /\ ~fetch[i].secretAnswer.ok
    /\ fetch[i].secretAnswer.message = "InternalServiceError"
    /\ fetch[i].result.kind = "skip"


(***************************************************************************)
(* The log of the fetch handler (checked under SpecFetch).                 *)
(***************************************************************************)
\* The credential values invocation i has seen: the injected one, the one
\* retrieved from the secret store and the one in effect.
Credentials(f) ==
  ( {f.apiKey, f.secretAnswer.SecretString}
    \cup (IF env.WEATHER_API_KEY.set THEN {env.WEATHER_API_KEY.value} ELSE {}) )
  \ {""}

\* The texts of a log entry: its message and the fragments of its arguments.
Texts(entry) == {entry.msg} \cup {entry.strs[n] : n \in DOMAIN entry.strs}

\* C21: no log entry the fetch handler writes, on any path, contains the
\* credential value, injected or retrieved.
C21_NoCredentialInLog ==
  \A i \in FetchIds :
    \A n \in DOMAIN fetch[i].log :
      Texts(fetch[i].log[n]) \cap Credentials(fetch[i]) = {}

C21_Witness ==
  \E i \in FetchIds :
    /\ fetch[i].secretAnswer.SecretString = "REALKEY"
    /\ fetch[i].pc = "thrown"
    /\ Len(fetch[i].log) = 3
    /\ fetch[i].log[3].level = "error"


C23_FetchFollowedByPublish ==
  \A i \in FetchIds :
    (fetch[i].pc = "returned" /\ fetch[i].result.kind = "count") =>
      Len(fetch[i].publishes) = 1


(***************************************************************************)
(* Selection and dispatch of the automation handler (under SpecAuto).      *)
(***************************************************************************)
\* The condition of the quarter of [0, 1) the draw k / RandDen lies in.
Quarter(k) ==
  CASE 4 * k < RandDen -> "Clear"
    [] 4 * k < 2 * RandDen -> "Rain"
    [] 4 * k < 3 * RandDen -> "Storm"
    [] OTHER -> "Cloudy"

\* C24: the condition selected is conditions[floor(r * 4)]: Clear for r in
\* [0, 0.25), Rain for [0.25, 0.5), Storm for [0.5, 0.75), Cloudy for
\* [0.75, 1), so 0.0, 0.3, 0.5, 0.8 give Clear, Rain, Storm, Cloudy; the
\* index is within 0..3 and each condition is reachable.
C24_SelectByQuarter ==
  /\ \A k \in 0..(RandDen - 1) :
       /\ (k * 4) \div RandDen \in 0..3
       /\ Select(k) = Quarter(k)
       /\ k = 0 => Select(k) = "Clear"
       /\ 10 * k = 3 * RandDen => Select(k) = "Rain"
       /\ 10 * k = 5 * RandDen => Select(k) = "Storm"
       /\ 10 * k = 8 * RandDen => Select(k) = "Cloudy"
       /\ 4 * k = RandDen => Select(k) = "Rain"
       /\ 4 * k = 3 * RandDen => Select(k) = "Cloudy"
  /\ \A c \in {"Clear", "Rain", "Storm", "Cloudy"} :
       \E k \in 0..(RandDen - 1) : Select(k) = c
  /\ \A j \in AutoIds :
       auto[j].pc # "idle" => auto[j].selected = Quarter(auto[j].r)

C24_Witness ==
  /\ \E j \in AutoIds :
       /\ 10 * auto[j].r = 3 * RandDen
       /\ auto[j].selected = "Rain"
       /\ auto[j].pc = "returned"
  /\ \E j \in AutoIds :
       /\ 10 * auto[j].r = 5 * RandDen
       /\ auto[j].selected = "Storm"
       /\ auto[j].pc = "returned"

\* C25: the dispatch is exhaustive: the default branch, which does nothing,
\* runs if and only if the selected condition is Cloudy.
C25_DefaultOnlyForCloudy ==
  \A j \in AutoIds :
    auto[j].pc # "idle" =>
      /\ (auto[j].branch = "default") = (auto[j].selected = "Cloudy")
      /\ (auto[j].log[Len(auto[j].log)].msg =
            "[AutomationHandler] Cloudy weather. No automation required.")
           = (auto[j].selected = "Cloudy")
      /\ auto[j].branch \in {"Storm", "Rain", "Clear", "default"}

C25_Witness ==
  /\ \E j \in AutoIds :
       /\ auto[j].selected = "Cloudy"
       /\ auto[j].branch = "default"
       /\ auto[j].pc = "returned"
  /\ \E j \in AutoIds :
       /\ auto[j].selected = "Clear"
       /\ auto[j].branch = "Clear"
       /\ auto[j].pc = "returned"


\* C26: dispatch is a pure mapping without hidden state: two finished
\* invocations of main that selected the same condition made the same
\* publish calls, and if they also received the same publisher answer they
\* ended the same way with the same response, whatever the other did.
C26_DispatchIsPureMapping ==
  \A j1, j2 \in AutoIds :
    (/\ AutoDone(auto[j1])
     /\ AutoDone(auto[j2])
     /\ auto[j1].selected = auto[j2].selected) =>
       /\ auto[j1].branch = auto[j2].branch
       /\ auto[j1].publishes = auto[j2].publishes
       /\ auto[j1].publishAnswer = auto[j2].publishAnswer =>
            /\ auto[j1].pc = auto[j2].pc
            /\ auto[j1].response = auto[j2].response
            /\ auto[j1].error = auto[j2].error

C26_Witness ==
  \E j1, j2 \in AutoIds :
    /\ j1 # j2
    /\ auto[j1].r # auto[j2].r
    /\ auto[j1].selected = "Rain"
    /\ auto[j2].selected = "Rain"
    /\ auto[j1].publishAnswer = PublishOk
    /\ auto[j2].publishAnswer = PublishOk
    /\ auto[j1].pc = "returned"
    /\ auto[j2].pc = "returned"
    /\ Len(auto[j1].publishes) = 1
    /\ auto[j1].response = auto[j2].response

(***************************************************************************)
(* The two handlers side by side (under SpecBoth).                         *)
(***************************************************************************)
\* C27: the automation unit is independent of the fetch unit: what main
\* selects and does follows from its own draw alone, whatever handler
\* returned, resolved or raised, and the handlers share no mutable state: a
\* step of one leaves the other's state, and the configuration, as it was.
C27_AutomationIndependentOfFetch ==
  /\ [](\A j \in AutoIds :
          auto[j].pc # "idle" =>
            /\ auto[j].selected = Quarter(auto[j].r)
            /\ auto[j].branch =
                 (IF auto[j].selected = "Cloudy" THEN "default"
                  ELSE auto[j].selected)
            /\ Len(auto[j].publishes) =
                 (IF auto[j].selected = "Rain" THEN 1 ELSE 0))
  /\ [][/\ fetch' # fetch => auto' = auto
        /\ auto' # auto => fetch' = fetch
        /\ env' = env]_vars

C27_Witness ==
  /\ \E i \in FetchIds :
       /\ fetch[i].pc = "thrown"
       /\ fetch[i].secretAnswer # NoSecretAnswer
  /\ \E j \in AutoIds :
       /\ auto[j].pc = "returned"
       /\ auto[j].selected = "Rain"
       /\ Len(auto[j].publishes) = 1

\* C28: the location is read once when a fetch invocation starts and stays
\* what it was for the invocation's lifetime; the GET is built from it; and
\* no step of handler or main writes CITY, WEATHER_API_KEY or
\* AUTOMATION_TOPIC_ARN, so a secret retrieved by the lookup is never written
\* back into WEATHER_API_KEY.
C28_ConfigurationImmutable ==
  /\ [][env' = env]_vars
  /\ [][\A i \in FetchIds :
          fetch[i].pc # "idle" => fetch'[i].city = fetch[i].city]_vars
  /\ [](\A i \in FetchIds :
          fetch[i].pc # "idle" =>
            /\ fetch[i].city = CityOf(env)
            /\ InjectedKey(env) = fetch[i].injected
            /\ \A n \in DOMAIN fetch[i].httpCalls :
                 fetch[i].httpCalls[n].url =
                   Url(fetch[i].city, fetch[i].apiKey))

C28_Witness ==
  /\ env.CITY = SetTo(OtherCity)
  /\ env.WEATHER_API_KEY = SetTo("")
  /\ \E i \in FetchIds :
       /\ SecretTruthy(fetch[i].secretAnswer)
       /\ fetch[i].apiKey = fetch[i].secretAnswer.SecretString
       /\ fetch[i].city = OtherCity
       /\ Len(fetch[i].httpCalls) = 1
       /\ fetch[i].pc = "returned"
  /\ \E j \in AutoIds :
       /\ Len(auto[j].publishes) = 1
       /\ auto[j].pc = "returned"

\* C29: in the Rain branch main returns its statusCode 200 response only
\* after the publish call completed successfully: no response exists while
\* the publish is pending, and none is produced after it failed.
C29_ResponseAfterPublish ==
  \A j \in AutoIds :
    /\ auto[j].pc = "publish" =>
         /\ auto[j].response = NoResponse
         /\ auto[j].publishAnswer = NoPublishAnswer
    /\ (auto[j].selected = "Rain" /\ auto[j].response.statusCode = 200) =>
         /\ auto[j].publishAnswer = PublishOk
         /\ Len(auto[j].publishes) = 1
         /\ auto[j].pc = "returned"
    /\ auto[j].publishAnswer \notin {NoPublishAnswer, PublishOk} =>
         /\ auto[j].response = NoResponse
         /\ auto[j].pc = "thrown"

C29_Witness ==
  /\ \E j \in AutoIds :
       /\ auto[j].selected = "Rain"
       /\ auto[j].publishAnswer = PublishOk
       /\ auto[j].response.statusCode = 200
       /\ auto[j].pc = "returned"
  /\ \E j \in AutoIds :
       /\ auto[j].selected = "Rain"
       /\ auto[j].publishAnswer \notin {NoPublishAnswer, PublishOk}
       /\ auto[j].pc = "thrown"

=============================================================================
